---------------------------- MODULE Spec2Model ----------------------------
(***************************************************************************)
(* A model of the dhall_core expression printer (printer.rs): the          *)
(* structural printer (Display for ExprF), the phase engine                *)
(* (Expr::fmt_phase) and the leaf printers for labels and interpolated     *)
(* text.                                                                   *)
(*                                                                         *)
(* A character is a TLA+ string: a one-character string for printable      *)
(* ASCII, and a name for the others (BACKTICK, LAMBDA, FORALL, ARROW, BS,  *)
(* FF, LF, CR, TAB, EACUTE).  A string of the program is a sequence of     *)
(* characters.  One write_str call on the formatter is one piece: the sink *)
(* receives a sequence of pieces.                                          *)
(***************************************************************************)
EXTENDS Integers, Sequences, FiniteSets, TLC

----------------------------------------------------------------------------
(* Bounds of the model.                                                    *)

\* nesting depth of the terms drawn in Init (an atom has depth 0)
MaxDepth == 2
\* length of the labels drawn in InitLabel
MaxLabelLen == 4
\* length of one literal chunk of the texts drawn in InitText
MaxChunkLen == 2

----------------------------------------------------------------------------
(* Characters.                                                             *)

Digits == <<"0", "1", "2", "3", "4", "5", "6", "7", "8", "9">>

DigitSet == {Digits[i] : i \in 1..10}

LowerSet == {"a", "b", "c", "d", "e", "f", "g", "h", "i", "j", "k", "l", "m",
             "n", "o", "p", "q", "r", "s", "t", "u", "v", "w", "x", "y", "z"}

UpperSet == {"A", "B", "C", "D", "E", "F", "G", "H", "I", "J", "K", "L", "M",
             "N", "O", "P", "Q", "R", "S", "T", "U", "V", "W", "X", "Y", "Z"}

\* char::is_ascii_alphanumeric
IsAsciiAlphanumeric(c) == c \in DigitSet \cup LowerSet \cup UpperSet

\* decimal rendering of a natural number (Display for usize / isize digits)
RECURSIVE DecStr(_)
DecStr(n) == IF n < 10 THEN <<Digits[n + 1]>>
             ELSE DecStr(n \div 10) \o <<Digits[(n % 10) + 1]>>

RECURSIVE Flatten(_)
Flatten(ss) == IF ss = <<>> THEN <<>> ELSE Head(ss) \o Flatten(Tail(ss))

----------------------------------------------------------------------------
(* Labels.                                                                 *)

kwLet  == <<"l", "e", "t">>
kwIn   == <<"i", "n">>
kwIf   == <<"i", "f">>
kwThen == <<"t", "h", "e", "n">>
kwElse == <<"e", "l", "s", "e">>

\* the back-tick, as a one-character piece
Backtick == <<"BACKTICK">>

\* the closure is_keyword of Display for Label
is_keyword(s) == s \in {kwLet, kwIn, kwIf, kwThen, kwElse}

LabelBareMut(s) == \A i \in 1..Len(s) : IsAsciiAlphanumeric(s[i])

\* the condition of Display for Label under which the label is written bare
LabelBare(s) ==
    (\A i \in 1..Len(s) : IsAsciiAlphanumeric(s[i])) /\ ~is_keyword(s)

\* Display for Label: the pieces written (write! writes each literal part of
\* the format string and each argument with one write_str)
LabelFmt(s) == IF LabelBare(s) THEN <<s>> ELSE <<Backtick, s, Backtick>>

----------------------------------------------------------------------------
(* Binary operators and print phases.                                      *)

\* the operators, in declaration order of enum BinOp
BinOps == <<"ImportAlt", "BoolOr", "NaturalPlus", "TextAppend", "ListAppend",
            "BoolAnd", "Combine", "Prefer", "CombineTypes", "NaturalTimes",
            "BoolEQ", "BoolNE">>

BinOpSet == {BinOps[i] : i \in 1..Len(BinOps)}

\* position of an operator in the declaration order (derive(Ord) on BinOp)
OpIdx(op) == CHOOSE i \in 1..Len(BinOps) : BinOps[i] = op

\* Display for BinOp
BinOpFmt(op) ==
    CASE op = "BoolOr"       -> <<"|", "|">>
      [] op = "TextAppend"   -> <<"+", "+">>
      [] op = "NaturalPlus"  -> <<"+">>
      [] op = "BoolAnd"      -> <<"&", "&">>
      [] op = "Combine"      -> <<"/", "\\">>
      [] op = "NaturalTimes" -> <<"*">>
      [] op = "BoolEQ"       -> <<"=", "=">>
      [] op = "BoolNE"       -> <<"!", "=">>
      [] op = "CombineTypes" -> <<"/", "/", "\\", "\\">>
      [] op = "ImportAlt"    -> <<"?">>
      [] op = "Prefer"       -> <<"/", "/">>
      [] op = "ListAppend"   -> <<"#">>

\* enum PrintPhase: a variant and, for BinOp, its operator
Ph(v, op) == [v |-> v, op |-> op]
Base      == Ph("Base", "")
Operator  == Ph("Operator", "")
BinOpPhase(op) == Ph("BinOp", op)
AppPhase      == Ph("App", "")
Import    == Ph("Import", "")
Primitive == Ph("Primitive", "")

PrintPhases == {Base, Operator, AppPhase, Import, Primitive}
                   \cup {BinOpPhase(op) : op \in BinOpSet}

\* position of a variant in the declaration of PrintPhase
VariantIdx(v) ==
    CASE v = "Base" -> 0 [] v = "Operator" -> 1 [] v = "BinOp" -> 2
      [] v = "App" -> 3 [] v = "Import" -> 4 [] v = "Primitive" -> 5

\* p > q in the order derive(Ord) gives PrintPhase: by variant, then by the
\* operator of two BinOp phases
PhaseGt(p, q) ==
    \/ VariantIdx(p.v) > VariantIdx(q.v)
    \/ p.v = "BinOp" /\ q.v = "BinOp" /\ OpIdx(p.op) > OpIdx(q.op)

----------------------------------------------------------------------------
(* Terms.  A term is a record: its shape k, its labels ls, its operator,   *)
(* constant or builtin op, its number n and its subterms kids.  An         *)
(* optional subterm that is None is the term Absent.                       *)
(*   Lam, Pi: ls = <<a>>, kids = <<b, c>>     BoolIf: kids = <<a, b, c>>   *)
(*   Let: ls = <<a>>, kids = <<b?, c, d>>     Annot: kids = <<a, b>>       *)
(*   EmptyListLit, EmptyOptionalLit: kids = <<t>>   NEListLit: kids = es   *)
(*   OldOptionalLit: kids = <<x?, t>>         NEOptionalLit: kids = <<e>>  *)
(*   Merge: kids = <<a, b, c?>>               BinOp: op, kids = <<a, b>>   *)
(*   App: kids = <<a>> \o args                Field: ls = <<b>>, <<a>>     *)
(*   Projection: ls, kids = <<e>>             Var: ls = <<x>>, n           *)
(*   Const, Builtin: op                       BoolLit: n = 1 for true      *)
(*   NaturalLit, IntegerLit: n                                             *)
(*   TextLit: ls = the literal chunks, kids = the embedded terms, chunk i  *)
(*     followed by term i                                                  *)
(*   RecordType, RecordLit: ls = keys in map order, kids = their terms     *)
(*   UnionType: ls = keys, kids = their types?                             *)
(*   UnionLit: ls = <<a>> \o keys, kids = <<b>> \o types?                  *)
(*   UnionConstructor: ls = <<x>> \o keys, kids = <<Absent>> \o types?     *)
(*   Note: n = the note, kids = <<b>>                                      *)

T(k, ls, op, n, kids) == [k |-> k, ls |-> ls, op |-> op, n |-> n, kids |-> kids]

Absent == T("Absent", <<>>, "", 0, <<>>)

Underscore == <<"_">>

----------------------------------------------------------------------------
(* The phase engine: Expr::fmt_phase.                                      *)

ParenAtBaseShapes == {"Lam", "BoolIf", "Pi", "Let", "EmptyListLit", "NEListLit",
                      "OldOptionalLit", "EmptyOptionalLit", "NEOptionalLit",
                      "Merge", "Annot"}

\* let needs_paren = match self { ... }
needs_paren(e, phase) ==
    CASE e.k \in ParenAtBaseShapes /\ PhaseGt(phase, Base) -> TRUE
      [] e.k = "BinOp" /\ PhaseGt(phase, BinOpPhase(e.op)) -> TRUE
      [] e.k = "App" /\ PhaseGt(phase, AppPhase) -> TRUE
      [] e.k \in {"Field", "Projection"} /\ PhaseGt(phase, Import) -> TRUE
      [] OTHER -> FALSE

\* if needs_paren { phase = Base; }
EffPhase(e, phase) == IF needs_paren(e, phase) THEN Base ELSE phase

NotePhaseMut(phase) == Base

\* the Note arm of phased_self: Note(n, b) => Note(n, b.phase(phase))
NotePhase(phase) == phase

phased_selfMut(e, phase) ==
    CASE e.k = "Pi" ->
           IF e.ls[1] = Underscore THEN <<Operator, Base>> ELSE <<Base, Base>>
      [] e.k = "Merge" -> <<Import, Import, Import>>
      [] e.k = "Annot" -> <<Operator, Base>>
      [] e.k = "BinOp" -> <<BinOpPhase(e.op), BinOpPhase(e.op)>>
      [] e.k = "EmptyListLit" -> <<Import>>
      [] e.k = "OldOptionalLit" -> <<Base, Import>>
      [] e.k = "EmptyOptionalLit" -> <<Import>>
      [] e.k = "NEOptionalLit" -> <<Import>>
      [] e.k = "App" -> [i \in 1..Len(e.kids) |-> Import]
      [] e.k \in {"Field", "Projection"} -> <<Primitive>>
      [] e.k = "Note" -> <<NotePhase(phase)>>
      [] OTHER -> [i \in 1..Len(e.kids) |-> Base]

\* let phased_self = match self.map_ref_simple(|e| PhasedExpr(e, Base)) { ... }:
\* the phase of each subterm, in the order of kids; phase is the phase after
\* the reset above
phased_self(e, phase) ==
    CASE e.k = "Pi" ->
           IF e.ls[1] = Underscore THEN <<Operator, Base>> ELSE <<Base, Base>>
      [] e.k = "Merge" -> <<Import, Import, AppPhase>>
      [] e.k = "Annot" -> <<Operator, Base>>
      [] e.k = "BinOp" -> <<BinOpPhase(e.op), BinOpPhase(e.op)>>
      [] e.k = "EmptyListLit" -> <<Import>>
      [] e.k = "OldOptionalLit" -> <<Base, Import>>
      [] e.k = "EmptyOptionalLit" -> <<Import>>
      [] e.k = "NEOptionalLit" -> <<Import>>
      [] e.k = "App" -> [i \in 1..Len(e.kids) |-> Import]
      [] e.k \in {"Field", "Projection"} -> <<Primitive>>
      [] e.k = "Note" -> <<NotePhase(phase)>>
      [] OTHER -> [i \in 1..Len(e.kids) |-> Base]

----------------------------------------------------------------------------
(* The structural printer: Display for ExprF over phased subterms.  It     *)
(* yields the items the formatter goes through, in order: a piece to write *)
(* (one write_str) or a subterm to format under its phase (the subterm,    *)
(* its phase, and its index in kids).                                      *)

StrI(cs)         == [w |-> "str", cs |-> cs, e |-> Absent, ph |-> Base, ix |-> 0]
ExprI(e, ph, ix) == [w |-> "expr", cs |-> <<>>, e |-> e, ph |-> ph, ix |-> ix]

\* the items of a label: one per piece of Display for Label
LabelI(s) == [i \in 1..Len(LabelFmt(s)) |-> StrI(LabelFmt(s)[i])]

\* fmt_list: open, then the elements with sep between them, then close
RECURSIVE fmt_list_from(_, _, _)
fmt_list_from(sep, elems, i) ==
    IF i > Len(elems) THEN <<>>
    ELSE (IF i > 1 THEN <<StrI(sep)>> ELSE <<>>) \o elems[i]
             \o fmt_list_from(sep, elems, i + 1)

fmt_list(open, sep, close, elems) ==
    <<StrI(open)>> \o fmt_list_from(sep, elems, 1) \o <<StrI(close)>>

\* Display for Const (its Debug name) and for Builtin, for the constants and
\* builtins of the model
ConstFmt(c) ==
    CASE c = "Type" -> <<"T", "y", "p", "e">>
      [] c = "Kind" -> <<"K", "i", "n", "d">>
      [] c = "Sort" -> <<"S", "o", "r", "t">>

BuiltinFmt(b) ==
    CASE b = "Bool"    -> <<"B", "o", "o", "l">>
      [] b = "Natural" -> <<"N", "a", "t", "u", "r", "a", "l">>
      [] b = "Text"    -> <<"T", "e", "x", "t">>

EscapeCharMut(c) ==
    CASE c = "\\"  -> <<"\\", "\\">>
      [] c = "\""  -> <<"\\", "\"">>
      [] c = "BS"  -> <<"\\", "b">>
      [] c = "FF"  -> <<"\\", "f">>
      [] c = "LF"  -> <<"\\", "n">>
      [] c = "CR"  -> <<"\\", "r">>
      [] c = "TAB" -> <<"\\", "t">>
      [] OTHER     -> <<c>>

\* the escape table of Display for InterpolatedText
EscapeChar(c) ==
    CASE c = "\\"  -> <<"\\", "\\">>
      [] c = "\""  -> <<"\\", "\"">>
      [] c = "$"   -> <<"\\", "$">>
      [] c = "BS"  -> <<"\\", "b">>
      [] c = "FF"  -> <<"\\", "f">>
      [] c = "LF"  -> <<"\\", "n">>
      [] c = "CR"  -> <<"\\", "r">>
      [] c = "TAB" -> <<"\\", "t">>
      [] OTHER     -> <<c>>

\* Display for InterpolatedText: chunk i is ls[i], followed by the embedded
\* term kids[i] when there is one
RECURSIVE TextChunksFrom(_, _, _)
TextChunksFrom(e, kp, i) ==
    IF i > Len(e.ls) THEN <<>>
    ELSE [j \in 1..Len(e.ls[i]) |-> StrI(EscapeChar(e.ls[i][j]))]
           \o (IF i <= Len(e.kids)
               THEN <<StrI(<<"$", "{", " ">>), ExprI(e.kids[i], kp[i], i),
                      StrI(<<" ", "}">>)>>
               ELSE <<>>)
           \o TextChunksFrom(e, kp, i + 1)

InterpolatedTextFmt(e, kp) ==
    <<StrI(<<"\"">>)>> \o TextChunksFrom(e, kp, 1) \o <<StrI(<<"\"">>)>>

\* the closure of the union shapes: the key, then ": " and its type if any
AltI(l, e, ph, ix) ==
    LabelI(l)
      \o (IF e = Absent THEN <<>> ELSE <<StrI(<<":", " ">>), ExprI(e, ph, ix)>>)

\* the i-th subterm of e, to be formatted under its phase
Kid(e, kp, i) == ExprI(e.kids[i], kp[i], i)

AppFmtMut(e, kp) ==
    <<Kid(e, kp, 1)>>
      \o Flatten([i \in 1..Len(e.kids) |-> <<StrI(<<" ">>), Kid(e, kp, i)>>])

\* the App arm of Display for ExprF: a.fmt(f)?, then for each argument
\* f.write_str(" ")? and x.fmt(f)?
AppFmt(e, kp) ==
    <<Kid(e, kp, 1)>>
      \o Flatten([i \in 1..(Len(e.kids) - 1) |-> <<StrI(<<" ">>), Kid(e, kp, i + 1)>>])

\* impl Display for ExprF: e is the node, kp the phases of its subterms
ExprFFmt(e, kp) ==
    LET X(i) == Kid(e, kp, i)
        n == Len(e.kids)
    IN
    CASE e.k = "Lam" ->
           <<StrI(<<"LAMBDA", "(">>)>> \o LabelI(e.ls[1]) \o <<StrI(<<" ", ":", " ">>),
             X(1), StrI(<<")", " ", "ARROW", " ">>), X(2)>>
      [] e.k = "BoolIf" ->
           <<StrI(<<"i", "f", " ">>), X(1), StrI(<<" ", "t", "h", "e", "n", " ">>),
             X(2), StrI(<<" ", "e", "l", "s", "e", " ">>), X(3)>>
      [] e.k = "Pi" /\ e.ls[1] = Underscore ->
           <<X(1), StrI(<<" ", "ARROW", " ">>), X(2)>>
      [] e.k = "Pi" /\ e.ls[1] # Underscore ->
           <<StrI(<<"FORALL", "(">>)>> \o LabelI(e.ls[1]) \o <<StrI(<<" ", ":", " ">>),
             X(1), StrI(<<")", " ", "ARROW", " ">>), X(2)>>
      [] e.k = "Let" ->
           <<StrI(<<"l", "e", "t", " ">>)>> \o LabelI(e.ls[1])
             \o (IF e.kids[1] = Absent THEN <<>>
                 ELSE <<StrI(<<" ", ":", " ">>), X(1)>>)
             \o <<StrI(<<" ", "=", " ">>), X(2), StrI(<<" ", "i", "n", " ">>), X(3)>>
      [] e.k = "EmptyListLit" ->
           <<StrI(<<"[", "]", " ", ":", " ", "L", "i", "s", "t", " ">>), X(1)>>
      [] e.k = "NEListLit" ->
           fmt_list(<<"[">>, <<",", " ">>, <<"]">>, [i \in 1..n |-> <<X(i)>>])
      [] e.k = "OldOptionalLit" /\ e.kids[1] = Absent ->
           <<StrI(<<"[", "]", " ", ":", " ", "O", "p", "t", "i", "o", "n", "a", "l", " ">>),
             X(2)>>
      [] e.k = "OldOptionalLit" /\ e.kids[1] # Absent ->
           <<StrI(<<"[">>), X(1),
             StrI(<<"]", " ", ":", " ", "O", "p", "t", "i", "o", "n", "a", "l", " ">>),
             X(2)>>
      [] e.k = "EmptyOptionalLit" -> <<StrI(<<"N", "o", "n", "e", " ">>), X(1)>>
      [] e.k = "NEOptionalLit" -> <<StrI(<<"S", "o", "m", "e", " ">>), X(1)>>
      [] e.k = "Merge" ->
           <<StrI(<<"m", "e", "r", "g", "e", " ">>), X(1), StrI(<<" ">>), X(2)>>
             \o (IF e.kids[3] = Absent THEN <<>>
                 ELSE <<StrI(<<" ", ":", " ">>), X(3)>>)
      [] e.k = "Annot" -> <<X(1), StrI(<<" ", ":", " ">>), X(2)>>
      [] e.k = "BinOp" ->
           <<X(1), StrI(<<" ">>), StrI(BinOpFmt(e.op)), StrI(<<" ">>), X(2)>>
      [] e.k = "App" -> AppFmt(e, kp)
      [] e.k = "Field" -> <<X(1), StrI(<<".">>)>> \o LabelI(e.ls[1])
      [] e.k = "Projection" ->
           <<X(1), StrI(<<".">>)>>
             \o fmt_list(<<"{", " ">>, <<",", " ">>, <<" ", "}">>,
                         [i \in 1..Len(e.ls) |-> LabelI(e.ls[i])])
      [] e.k = "Var" ->
           LabelI(e.ls[1])
             \o (IF e.n # 0 THEN <<StrI(<<"@">>), StrI(DecStr(e.n))>> ELSE <<>>)
      [] e.k = "Const" -> <<StrI(ConstFmt(e.op))>>
      [] e.k = "Builtin" -> <<StrI(BuiltinFmt(e.op))>>
      [] e.k = "BoolLit" ->
           IF e.n = 1 THEN <<StrI(<<"T", "r", "u", "e">>)>>
           ELSE <<StrI(<<"F", "a", "l", "s", "e">>)>>
      [] e.k = "NaturalLit" -> <<StrI(DecStr(e.n))>>
      [] e.k = "IntegerLit" /\ e.n >= 0 -> <<StrI(<<"+">>), StrI(DecStr(e.n))>>
      [] e.k = "IntegerLit" /\ e.n < 0 -> <<StrI(<<"-">>), StrI(DecStr(0 - e.n))>>
      [] e.k = "TextLit" -> InterpolatedTextFmt(e, kp)
      [] e.k = "RecordType" /\ n = 0 -> <<StrI(<<"{", "}">>)>>
      [] e.k = "RecordType" /\ n > 0 ->
           fmt_list(<<"{", " ">>, <<",", " ">>, <<" ", "}">>,
                    [i \in 1..n |-> LabelI(e.ls[i]) \o <<StrI(<<" ", ":", " ">>), X(i)>>])
      [] e.k = "RecordLit" /\ n = 0 -> <<StrI(<<"{", "=", "}">>)>>
      [] e.k = "RecordLit" /\ n > 0 ->
           fmt_list(<<"{", " ">>, <<",", " ">>, <<" ", "}">>,
                    [i \in 1..n |-> LabelI(e.ls[i]) \o <<StrI(<<" ", "=", " ">>), X(i)>>])
      [] e.k = "UnionType" ->
           fmt_list(<<"<", " ">>, <<" ", "|", " ">>, <<" ", ">">>,
                    [i \in 1..n |-> AltI(e.ls[i], e.kids[i], kp[i], i)])
      [] e.k = "UnionLit" ->
           <<StrI(<<"<", " ">>)>> \o LabelI(e.ls[1]) \o <<StrI(<<" ", "=", " ">>), X(1)>>
             \o Flatten([i \in 1..(n - 1) |->
                           <<StrI(<<" ", "|", " ">>)>>
                             \o AltI(e.ls[i + 1], e.kids[i + 1], kp[i + 1], i + 1)])
             \o <<StrI(<<" ", ">">>)>>
      [] e.k = "UnionConstructor" ->
           fmt_list(<<"<", " ">>, <<" ", "|", " ">>, <<" ", ">">>,
                    [i \in 1..(n - 1) |-> AltI(e.ls[i + 1], e.kids[i + 1], kp[i + 1], i + 1)])
             \o <<StrI(<<".">>)>> \o LabelI(e.ls[1])
      [] e.k = "Note" -> <<X(1)>>

\* the items fmt_phase goes through for e under the demanded phase:
\* "(" if needs_paren, phased_self.fmt(f), ")" if needs_paren
fmt_phase_items(e, phase) ==
    LET np == needs_paren(e, phase)
        body == ExprFFmt(e, phased_self(e, EffPhase(e, phase)))
    IN  IF np THEN <<StrI(<<"(">>)>> \o body \o <<StrI(<<")">>)>> ELSE body

\* the pieces a whole render writes to a sink that never fails
RECURSIVE fmt_phase(_, _)
RECURSIVE ItemsOut(_)
ItemsOut(items) ==
    IF items = <<>> THEN <<>>
    ELSE LET it == Head(items)
         IN  (IF it.w = "str" THEN <<it.cs>> ELSE fmt_phase(it.e, it.ph))
               \o ItemsOut(Tail(items))

fmt_phase(e, phase) == ItemsOut(fmt_phase_items(e, phase))

\* impl Display for SubExpr
SubExprFmt(e) == fmt_phase(e, Base)

----------------------------------------------------------------------------
(* The reader of the concrete syntax, which the printer's output is meant  *)
(* for: a lexer over characters and a recursive-descent parser with one    *)
(* grammar group per print phase.  Operators of one group associate to the *)
(* left; application is one node with all its arguments.                   *)

Tok(t, cs) == [t |-> t, cs |-> cs]

\* the last position of the run of characters of S that starts at i
\* (i - 1 when there is none)
RunEnd(S, s, i) ==
    LET stops == {j \in i..Len(s) : s[j] \notin S}
    IN  IF stops = {} THEN Len(s)
        ELSE (CHOOSE j \in stops : \A j2 \in stops : j <= j2) - 1

\* the position of the first occurrence of c at or after i (0 when none)
FindChar(c, s, i) ==
    LET hits == {j \in i..Len(s) : s[j] = c}
    IN  IF hits = {} THEN 0 ELSE CHOOSE j \in hits : \A j2 \in hits : j <= j2

\* symbols, longest first
Symbols == << <<"/", "/", "\\", "\\">>,
              <<"|", "|">>, <<"+", "+">>, <<"&", "&">>, <<"/", "\\">>,
              <<"=", "=">>, <<"!", "=">>, <<"/", "/">>,
              <<"+">>, <<"*">>, <<"?">>, <<"#">>, <<"(">>, <<")">>, <<"[">>,
              <<"]">>, <<"<">>, <<">">>, <<",">>, <<":">>,
              <<".">>, <<"@">>, <<"=">>, <<"|">>, <<"LAMBDA">>, <<"FORALL">>,
              <<"ARROW">> >>

HasPrefixAt(p, s, i) ==
    /\ i + Len(p) - 1 <= Len(s)
    /\ \A j \in 1..Len(p) : s[i + j - 1] = p[j]

\* the character an escape sequence \c of a text literal stands for
Unescape(c) ==
    CASE c = "b" -> "BS" [] c = "f" -> "FF" [] c = "n" -> "LF"
      [] c = "r" -> "CR" [] c = "t" -> "TAB" [] OTHER -> c

\* the literal chunk of a text that starts at i: its unescaped characters
\* and the position of the quote or interpolation that ends it (0 on a
\* lexical error)
RECURSIVE LexText(_, _, _)
LexText(s, i, acc) ==
    IF i > Len(s) THEN [cs |-> acc, i |-> 0]
    ELSE IF s[i] = "\"" THEN [cs |-> acc, i |-> i]
    ELSE IF s[i] = "$" /\ i + 1 <= Len(s) /\ s[i + 1] = "{" THEN [cs |-> acc, i |-> i]
    ELSE IF s[i] = "\\" THEN
        IF i + 1 > Len(s) \/ s[i + 1] \notin {"\\", "\"", "$", "b", "f", "n", "r", "t"}
        THEN [cs |-> acc, i |-> 0]
        ELSE LexText(s, i + 2, Append(acc, Unescape(s[i + 1])))
    ELSE IF s[i] \in {"BS", "FF", "LF", "CR", "TAB"} THEN [cs |-> acc, i |-> 0]
    ELSE LexText(s, i + 1, Append(acc, s[i]))

WordStart == LowerSet \cup UpperSet \cup {"_"}
WordChars == WordStart \cup DigitSet

\* the tokens of the characters s from position i on; st is what the lexer
\* is inside of, innermost first: "T" a text literal, "I" an interpolation,
\* "B" a pair of braces
RECURSIVE Lex(_, _, _)
Lex(s, i, st) ==
    IF i > Len(s) THEN (IF st = <<>> THEN <<>> ELSE <<Tok("bad", <<>>)>>)
    ELSE IF st # <<>> /\ Head(st) = "T" THEN
        IF s[i] = "\"" THEN <<Tok("tclose", <<>>)>> \o Lex(s, i + 1, Tail(st))
        ELSE IF s[i] = "$" /\ i + 1 <= Len(s) /\ s[i + 1] = "{"
        THEN <<Tok("iopen", <<>>)>> \o Lex(s, i + 2, <<"I">> \o st)
        ELSE LET r == LexText(s, i, <<>>)
             IN  IF r.i = 0 THEN <<Tok("bad", <<>>)>>
                 ELSE <<Tok("chunk", r.cs)>> \o Lex(s, r.i, st)
    ELSE IF s[i] = " " THEN Lex(s, i + 1, st)
    ELSE IF s[i] = "\"" THEN <<Tok("topen", <<>>)>> \o Lex(s, i + 1, <<"T">> \o st)
    ELSE IF s[i] = "{" THEN <<Tok("sym", <<"{">>)>> \o Lex(s, i + 1, <<"B">> \o st)
    ELSE IF s[i] = "}" THEN
        IF st = <<>> THEN <<Tok("bad", <<>>)>>
        ELSE IF Head(st) = "B" THEN <<Tok("sym", <<"}">>)>> \o Lex(s, i + 1, Tail(st))
        ELSE <<Tok("iclose", <<>>)>> \o Lex(s, i + 1, Tail(st))
    ELSE IF s[i] \in DigitSet THEN
        LET j == RunEnd(DigitSet, s, i)
        IN  <<Tok("nat", SubSeq(s, i, j))>> \o Lex(s, j + 1, st)
    ELSE IF s[i] \in {"+", "-"} /\ i + 1 <= Len(s) /\ s[i + 1] \in DigitSet THEN
        LET j == RunEnd(DigitSet, s, i + 1)
        IN  <<Tok("int", SubSeq(s, i, j))>> \o Lex(s, j + 1, st)
    ELSE IF s[i] \in WordStart THEN
        LET j == RunEnd(WordChars, s, i)
        IN  <<Tok("word", SubSeq(s, i, j))>> \o Lex(s, j + 1, st)
    ELSE IF s[i] = "BACKTICK" THEN
        LET j == FindChar("BACKTICK", s, i + 1)
        IN  IF j = 0 THEN <<Tok("bad", <<>>)>>
            ELSE <<Tok("qlabel", SubSeq(s, i + 1, j - 1))>> \o Lex(s, j + 1, st)
    ELSE
        LET ms == {k \in 1..Len(Symbols) : HasPrefixAt(Symbols[k], s, i)}
        IN  IF ms = {} THEN <<Tok("bad", <<>>)>>
            ELSE LET k == CHOOSE k \in ms : \A k2 \in ms : k <= k2
                 IN  <<Tok("sym", Symbols[k])>> \o Lex(s, i + Len(Symbols[k]), st)

----------------------------------------------------------------------------
(* The parser.  A result is [ok, e, i]: whether a term was read, the term, *)
(* and the position of the next token.                                     *)

Fail     == [ok |-> FALSE, e |-> Absent, i |-> 0]
Ok(e, i) == [ok |-> TRUE, e |-> e, i |-> i]

FailL == [ok |-> FALSE, ls |-> <<>>, es |-> <<>>, i |-> 0]
OkL(ls, es, i) == [ok |-> TRUE, ls |-> ls, es |-> es, i |-> i]

wMerge    == <<"m", "e", "r", "g", "e">>
wSome     == <<"S", "o", "m", "e">>
wNone     == <<"N", "o", "n", "e">>
wList     == <<"L", "i", "s", "t">>
wOptional == <<"O", "p", "t", "i", "o", "n", "a", "l">>
wTrue     == <<"T", "r", "u", "e">>
wFalse    == <<"F", "a", "l", "s", "e">>

ConstNames   == {"Type", "Kind", "Sort"}
BuiltinNames == {"Bool", "Natural", "Text"}

\* words that are no label when written bare
Reserved == {kwLet, kwIn, kwIf, kwThen, kwElse, wMerge, wSome, wNone, wList,
             wOptional, wTrue, wFalse}
              \cup {ConstFmt(c) : c \in ConstNames}
              \cup {BuiltinFmt(b) : b \in BuiltinNames}

IsSym(toks, i, cs)  == i <= Len(toks) /\ toks[i].t = "sym" /\ toks[i].cs = cs
IsWord(toks, i, cs) == i <= Len(toks) /\ toks[i].t = "word" /\ toks[i].cs = cs
IsNat(toks, i)      == i <= Len(toks) /\ toks[i].t = "nat"
IsLabelTok(toks, i) ==
    /\ i <= Len(toks)
    /\ \/ toks[i].t = "qlabel"
       \/ toks[i].t = "word" /\ toks[i].cs \notin Reserved

DigitVal(c) == (CHOOSE k \in 1..10 : Digits[k] = c) - 1

RECURSIVE StrToNat(_)
StrToNat(cs) ==
    IF cs = <<>> THEN 0
    ELSE 10 * StrToNat(SubSeq(cs, 1, Len(cs) - 1)) + DigitVal(cs[Len(cs)])

\* a token an import-level expression can start with
CanStartPrim(toks, i) ==
    /\ i <= Len(toks)
    /\ \/ toks[i].t \in {"nat", "int", "topen", "qlabel"}
       \/ toks[i].t = "word"
            /\ toks[i].cs \notin {kwLet, kwIn, kwIf, kwThen, kwElse, wMerge, wSome,
                                  wNone, wList, wOptional}
       \/ toks[i].t = "sym" /\ toks[i].cs \in {<<"(">>, <<"[">>, <<"{">>, <<"<">>}

RECURSIVE PExpr(_, _)
RECURSIVE PAnnot(_, _)
RECURSIVE POpTail(_, _)
RECURSIVE POp(_, _, _)
RECURSIVE POpLoop(_, _, _)
RECURSIVE PApp(_, _)
RECURSIVE PArgs(_, _, _)
RECURSIVE PSel(_, _)
RECURSIVE PSelLoop(_, _)
RECURSIVE PPrim(_, _)
RECURSIVE PList(_, _, _)
RECURSIVE PFields(_, _, _, _, _)
RECURSIVE PAlts(_, _, _, _)
RECURSIVE PLabels(_, _, _)
RECURSIVE PText(_, _, _, _, _)

\* LAMBDA(x : A) ARROW b   and   FORALL(x : A) ARROW B
PBinder(k, toks, i) ==
    IF IsSym(toks, i + 1, <<"(">>) /\ IsLabelTok(toks, i + 2) /\ IsSym(toks, i + 3, <<":">>)
    THEN LET r1 == PExpr(toks, i + 4)
         IN  IF r1.ok /\ IsSym(toks, r1.i, <<")">>) /\ IsSym(toks, r1.i + 1, <<"ARROW">>)
             THEN LET r2 == PExpr(toks, r1.i + 2)
                  IN  IF r2.ok
                      THEN Ok(T(k, <<toks[i + 2].cs>>, "", 0, <<r1.e, r2.e>>), r2.i)
                      ELSE Fail
             ELSE Fail
    ELSE Fail

\* if a then b else c
PIf(toks, i) ==
    LET r1 == PExpr(toks, i + 1)
    IN  IF r1.ok /\ IsWord(toks, r1.i, kwThen)
        THEN LET r2 == PExpr(toks, r1.i + 1)
             IN  IF r2.ok /\ IsWord(toks, r2.i, kwElse)
                 THEN LET r3 == PExpr(toks, r2.i + 1)
                      IN  IF r3.ok
                          THEN Ok(T("BoolIf", <<>>, "", 0, <<r1.e, r2.e, r3.e>>), r3.i)
                          ELSE Fail
                 ELSE Fail
        ELSE Fail

\* let x [: T] = v in b
PLet(toks, i) ==
    IF ~IsLabelTok(toks, i + 1) THEN Fail
    ELSE LET rt == IF IsSym(toks, i + 2, <<":">>) THEN PExpr(toks, i + 3)
                   ELSE Ok(Absent, i + 2)
         IN  IF rt.ok /\ IsSym(toks, rt.i, <<"=">>)
             THEN LET rv == PExpr(toks, rt.i + 1)
                  IN  IF rv.ok /\ IsWord(toks, rv.i, kwIn)
                      THEN LET rb == PExpr(toks, rv.i + 1)
                           IN  IF rb.ok
                               THEN Ok(T("Let", <<toks[i + 1].cs>>, "", 0,
                                         <<rt.e, rv.e, rb.e>>), rb.i)
                               ELSE Fail
                      ELSE Fail
             ELSE Fail

\* the base group: any expression
PExpr(toks, i) ==
    IF IsSym(toks, i, <<"LAMBDA">>) THEN PBinder("Lam", toks, i)
    ELSE IF IsSym(toks, i, <<"FORALL">>) THEN PBinder("Pi", toks, i)
    ELSE IF IsWord(toks, i, kwIf) THEN PIf(toks, i)
    ELSE IF IsWord(toks, i, kwLet) THEN PLet(toks, i)
    ELSE PAnnot(toks, i)

\* merge a b [: T]
PMerge(toks, i) ==
    LET r1 == PSel(toks, i + 1)
    IN  IF ~r1.ok THEN Fail
        ELSE LET r2 == PSel(toks, r1.i)
             IN  IF ~r2.ok THEN Fail
                 ELSE IF IsSym(toks, r2.i, <<":">>)
                 THEN LET r3 == PApp(toks, r2.i + 1)
                      IN  IF r3.ok
                          THEN Ok(T("Merge", <<>>, "", 0, <<r1.e, r2.e, r3.e>>), r3.i)
                          ELSE Fail
                 ELSE Ok(T("Merge", <<>>, "", 0, <<r1.e, r2.e, Absent>>), r2.i)

\* [] : List T   and   [] : Optional T
PEmpty(toks, i) ==
    LET r == PSel(toks, i + 4)
    IN  IF ~r.ok THEN Fail
        ELSE IF IsWord(toks, i + 3, wList)
        THEN Ok(T("EmptyListLit", <<>>, "", 0, <<r.e>>), r.i)
        ELSE IF IsWord(toks, i + 3, wOptional)
        THEN Ok(T("OldOptionalLit", <<>>, "", 0, <<Absent, r.e>>), r.i)
        ELSE Fail

\* the annotated group: merge, the empty and the legacy optional literals,
\* and an operator expression with an optional arrow or annotation
PAnnot(toks, i) ==
    IF IsWord(toks, i, wMerge) THEN PMerge(toks, i)
    ELSE IF IsSym(toks, i, <<"[">>) /\ IsSym(toks, i + 1, <<"]">>) THEN
        IF IsSym(toks, i + 2, <<":">>) THEN PEmpty(toks, i) ELSE Fail
    ELSE IF IsSym(toks, i, <<"[">>) THEN
        LET r1 == PExpr(toks, i + 1)
        IN  IF r1.ok /\ IsSym(toks, r1.i, <<"]">>) /\ IsSym(toks, r1.i + 1, <<":">>)
                 /\ IsWord(toks, r1.i + 2, wOptional)
            THEN LET rt == PSel(toks, r1.i + 3)
                 IN  IF rt.ok
                     THEN Ok(T("OldOptionalLit", <<>>, "", 0, <<r1.e, rt.e>>), rt.i)
                     ELSE Fail
            ELSE POpTail(toks, i)
    ELSE POpTail(toks, i)

POpTail(toks, i) ==
    LET r1 == POp(1, toks, i)
    IN  IF ~r1.ok THEN Fail
        ELSE IF IsSym(toks, r1.i, <<"ARROW">>)
        THEN LET r2 == PExpr(toks, r1.i + 1)
             IN  IF r2.ok
                 THEN Ok(T("Pi", <<Underscore>>, "", 0, <<r1.e, r2.e>>), r2.i)
                 ELSE Fail
        ELSE IF IsSym(toks, r1.i, <<":">>)
        THEN LET r2 == PExpr(toks, r1.i + 1)
             IN  IF r2.ok THEN Ok(T("Annot", <<>>, "", 0, <<r1.e, r2.e>>), r2.i)
                 ELSE Fail
        ELSE r1

\* the group of the k-th operator: operands of the next group, folded to the
\* left; after the last operator, the application group
POp(k, toks, i) ==
    IF k > Len(BinOps) THEN PApp(toks, i)
    ELSE LET r == POp(k + 1, toks, i)
         IN  IF r.ok THEN POpLoop(k, toks, r) ELSE Fail

POpLoop(k, toks, acc) ==
    IF IsSym(toks, acc.i, BinOpFmt(BinOps[k]))
    THEN LET r == POp(k + 1, toks, acc.i + 1)
         IN  IF r.ok
             THEN POpLoop(k, toks,
                          Ok(T("BinOp", <<>>, BinOps[k], 0, <<acc.e, r.e>>), r.i))
             ELSE Fail
    ELSE acc

\* the application group: f x1 x2 ..., Some x, None T
PApp(toks, i) ==
    LET kw == IsWord(toks, i, wSome) \/ IsWord(toks, i, wNone)
        r0 == PSel(toks, IF kw THEN i + 1 ELSE i)
        h  == IF ~r0.ok THEN Fail
              ELSE IF IsWord(toks, i, wSome)
              THEN Ok(T("NEOptionalLit", <<>>, "", 0, <<r0.e>>), r0.i)
              ELSE IF IsWord(toks, i, wNone)
              THEN Ok(T("EmptyOptionalLit", <<>>, "", 0, <<r0.e>>), r0.i)
              ELSE r0
    IN  IF ~h.ok THEN Fail
        ELSE LET ra == PArgs(toks, h.i, <<>>)
             IN  IF ~ra.ok THEN Fail
                 ELSE IF ra.es = <<>> THEN h
                 ELSE Ok(T("App", <<>>, "", 0, <<h.e>> \o ra.es), ra.i)

PArgs(toks, i, acc) ==
    IF CanStartPrim(toks, i)
    THEN LET r == PSel(toks, i)
         IN  IF r.ok THEN PArgs(toks, r.i, Append(acc, r.e)) ELSE FailL
    ELSE OkL(<<>>, acc, i)

\* the import group: a primitive followed by field accesses and projections
PSel(toks, i) ==
    LET r == PPrim(toks, i) IN IF r.ok THEN PSelLoop(toks, r) ELSE Fail

PSelLoop(toks, acc) ==
    IF ~IsSym(toks, acc.i, <<".">>) THEN acc
    ELSE IF IsLabelTok(toks, acc.i + 1)
    THEN PSelLoop(toks, Ok(T("Field", <<toks[acc.i + 1].cs>>, "", 0, <<acc.e>>),
                           acc.i + 2))
    ELSE IF IsSym(toks, acc.i + 1, <<"{">>)
    THEN LET r == IF IsSym(toks, acc.i + 2, <<"}">>) THEN OkL(<<>>, <<>>, acc.i + 3)
                  ELSE PLabels(toks, acc.i + 2, <<>>)
         IN  IF r.ok
             THEN PSelLoop(toks, Ok(T("Projection", r.ls, "", 0, <<acc.e>>), r.i))
             ELSE Fail
    ELSE Fail

\* l1, l2, ... }
PLabels(toks, i, ls) ==
    IF ~IsLabelTok(toks, i) THEN FailL
    ELSE IF IsSym(toks, i + 1, <<"}">>) THEN OkL(Append(ls, toks[i].cs), <<>>, i + 2)
    ELSE IF IsSym(toks, i + 1, <<",">>) THEN PLabels(toks, i + 2, Append(ls, toks[i].cs))
    ELSE FailL

\* e1, e2, ... ]
PList(toks, i, es) ==
    LET r == PExpr(toks, i)
    IN  IF ~r.ok THEN FailL
        ELSE IF IsSym(toks, r.i, <<"]">>) THEN OkL(<<>>, Append(es, r.e), r.i + 1)
        ELSE IF IsSym(toks, r.i, <<",">>) THEN PList(toks, r.i + 1, Append(es, r.e))
        ELSE FailL

\* l1 sep e1, l2 sep e2, ... }
PFields(toks, i, sep, ls, es) ==
    IF ~(IsLabelTok(toks, i) /\ IsSym(toks, i + 1, sep)) THEN FailL
    ELSE LET r == PExpr(toks, i + 2)
         IN  IF ~r.ok THEN FailL
             ELSE IF IsSym(toks, r.i, <<"}">>)
             THEN OkL(Append(ls, toks[i].cs), Append(es, r.e), r.i + 1)
             ELSE IF IsSym(toks, r.i, <<",">>)
             THEN PFields(toks, r.i + 1, sep, Append(ls, toks[i].cs), Append(es, r.e))
             ELSE FailL

\* l1[: T1] | l2[: T2] | ... >
PAlts(toks, i, ls, es) ==
    IF ~IsLabelTok(toks, i) THEN FailL
    ELSE LET r == IF IsSym(toks, i + 1, <<":">>) THEN PExpr(toks, i + 2)
                  ELSE Ok(Absent, i + 1)
         IN  IF ~r.ok THEN FailL
             ELSE IF IsSym(toks, r.i, <<">">>)
             THEN OkL(Append(ls, toks[i].cs), Append(es, r.e), r.i + 1)
             ELSE IF IsSym(toks, r.i, <<"|">>)
             THEN PAlts(toks, r.i + 1, Append(ls, toks[i].cs), Append(es, r.e))
             ELSE FailL

\* the rest of a text literal: chunks and interpolations up to the closing
\* quote; cur is the literal chunk read since the last interpolation
PText(toks, i, ls, es, cur) ==
    IF i > Len(toks) THEN Fail
    ELSE IF toks[i].t = "chunk" THEN PText(toks, i + 1, ls, es, cur \o toks[i].cs)
    ELSE IF toks[i].t = "tclose"
    THEN Ok(T("TextLit", Append(ls, cur), "", 0, es), i + 1)
    ELSE IF toks[i].t = "iopen"
    THEN LET r == PExpr(toks, i + 1)
         IN  IF r.ok /\ r.i <= Len(toks) /\ toks[r.i].t = "iclose"
             THEN PText(toks, r.i + 1, Append(ls, cur), Append(es, r.e), <<>>)
             ELSE Fail
    ELSE Fail

\* a variable x or x@n
PVar(toks, i) ==
    IF IsSym(toks, i + 1, <<"@">>) /\ IsNat(toks, i + 2)
    THEN Ok(T("Var", <<toks[i].cs>>, "", StrToNat(toks[i + 2].cs), <<>>), i + 3)
    ELSE Ok(T("Var", <<toks[i].cs>>, "", 0, <<>>), i + 1)

\* a word that is no label: a literal, a constant or a builtin
PWord(toks, i) ==
    LET w == toks[i].cs
    IN  IF w = wTrue THEN Ok(T("BoolLit", <<>>, "", 1, <<>>), i + 1)
        ELSE IF w = wFalse THEN Ok(T("BoolLit", <<>>, "", 0, <<>>), i + 1)
        ELSE IF \E c \in ConstNames : ConstFmt(c) = w
        THEN Ok(T("Const", <<>>, CHOOSE c \in ConstNames : ConstFmt(c) = w, 0, <<>>),
                i + 1)
        ELSE IF \E b \in BuiltinNames : BuiltinFmt(b) = w
        THEN Ok(T("Builtin", <<>>, CHOOSE b \in BuiltinNames : BuiltinFmt(b) = w, 0,
                  <<>>), i + 1)
        ELSE Fail

\* { }, {=}, { l : T, ... }, { l = e, ... }
PRecord(toks, i) ==
    IF IsSym(toks, i + 1, <<"}">>) THEN Ok(T("RecordType", <<>>, "", 0, <<>>), i + 2)
    ELSE IF IsSym(toks, i + 1, <<"=">>) /\ IsSym(toks, i + 2, <<"}">>)
    THEN Ok(T("RecordLit", <<>>, "", 0, <<>>), i + 3)
    ELSE IF IsSym(toks, i + 2, <<":">>)
    THEN LET r == PFields(toks, i + 1, <<":">>, <<>>, <<>>)
         IN  IF r.ok THEN Ok(T("RecordType", r.ls, "", 0, r.es), r.i) ELSE Fail
    ELSE LET r == PFields(toks, i + 1, <<"=">>, <<>>, <<>>)
         IN  IF r.ok THEN Ok(T("RecordLit", r.ls, "", 0, r.es), r.i) ELSE Fail

\* < l1[: T1] | ... >   and   < l = e | l1[: T1] | ... >
PUnion(toks, i) ==
    IF IsSym(toks, i + 1, <<">">>) THEN Ok(T("UnionType", <<>>, "", 0, <<>>), i + 2)
    ELSE IF IsLabelTok(toks, i + 1) /\ IsSym(toks, i + 2, <<"=">>)
    THEN LET r1 == PExpr(toks, i + 3)
         IN  IF ~r1.ok THEN Fail
             ELSE IF IsSym(toks, r1.i, <<">">>)
             THEN Ok(T("UnionLit", <<toks[i + 1].cs>>, "", 0, <<r1.e>>), r1.i + 1)
             ELSE IF IsSym(toks, r1.i, <<"|">>)
             THEN LET r == PAlts(toks, r1.i + 1, <<toks[i + 1].cs>>, <<r1.e>>)
                  IN  IF r.ok THEN Ok(T("UnionLit", r.ls, "", 0, r.es), r.i) ELSE Fail
             ELSE Fail
    ELSE LET r == PAlts(toks, i + 1, <<>>, <<>>)
         IN  IF r.ok THEN Ok(T("UnionType", r.ls, "", 0, r.es), r.i) ELSE Fail

\* the primitive group: literals, variables, records, unions, non-empty
\* lists and parenthesized expressions
PPrim(toks, i) ==
    IF i > Len(toks) THEN Fail
    ELSE IF toks[i].t = "nat"
    THEN Ok(T("NaturalLit", <<>>, "", StrToNat(toks[i].cs), <<>>), i + 1)
    ELSE IF toks[i].t = "int"
    THEN LET v == StrToNat(Tail(toks[i].cs))
         IN  Ok(T("IntegerLit", <<>>, "", IF toks[i].cs[1] = "-" THEN 0 - v ELSE v,
                  <<>>), i + 1)
    ELSE IF toks[i].t = "topen" THEN PText(toks, i + 1, <<>>, <<>>, <<>>)
    ELSE IF IsLabelTok(toks, i) THEN PVar(toks, i)
    ELSE IF toks[i].t = "word" THEN PWord(toks, i)
    ELSE IF IsSym(toks, i, <<"(">>)
    THEN LET r == PExpr(toks, i + 1)
         IN  IF r.ok /\ IsSym(toks, r.i, <<")">>) THEN Ok(r.e, r.i + 1) ELSE Fail
    ELSE IF IsSym(toks, i, <<"[">>)
    THEN LET r == PList(toks, i + 1, <<>>)
         IN  IF r.ok THEN Ok(T("NEListLit", <<>>, "", 0, r.es), r.i) ELSE Fail
    ELSE IF IsSym(toks, i, <<"{">>) THEN PRecord(toks, i)
    ELSE IF IsSym(toks, i, <<"<">>) THEN PUnion(toks, i)
    ELSE Fail

\* a whole string: a term followed by nothing
Parse(s) ==
    LET toks == Lex(s, 1, <<>>)
    IN  IF \E j \in 1..Len(toks) : toks[j].t = "bad" THEN Fail
        ELSE LET r == PExpr(toks, 1)
             IN  IF r.ok /\ r.i = Len(toks) + 1 THEN r ELSE Fail

\* a term with its Note wrappers removed
RECURSIVE StripNotes(_)
StripNotes(e) ==
    IF e.k = "Note" THEN StripNotes(e.kids[1])
    ELSE [e EXCEPT !.kids = [i \in 1..Len(e.kids) |-> StripNotes(e.kids[i])]]

----------------------------------------------------------------------------
(* The terms drawn by Init: the atoms, and every shape of the model built  *)
(* around a smaller term, the other positions holding the variables a, b.  *)

lA  == <<"a">>
lB  == <<"b">>
lX  == <<"x">>
lY  == <<"y">>

Var(x, n)  == T("Var", <<x>>, "", n, <<>>)
BinOp(op, a, b) == T("BinOp", <<>>, op, 0, <<a, b>>)
App(f, args) == T("App", <<>>, "", 0, <<f>> \o args)
Field(a, x) == T("Field", <<x>>, "", 0, <<a>>)
Note(n, b) == T("Note", <<>>, "", n, <<b>>)
NEListLit(es) == T("NEListLit", <<>>, "", 0, es)

tA == Var(lA, 0)
tB == Var(lB, 0)

Atoms == {tA}

\* shapes without subterms
Leaves ==
    { Var(kwIf, 0), Var(lX, 1), T("NaturalLit", <<>>, "", 2, <<>>),
      T("IntegerLit", <<>>, "", 0 - 1, <<>>),
      T("TextLit", << <<"a", "\"", "LF">> >>, "", 0, <<>>),
      T("RecordLit", <<>>, "", 0, <<>>) }

\* the operators used around a subterm
AroundOps == {"NaturalPlus", "NaturalTimes"}

\* terms with s as one immediate subterm
Around(s) ==
    { T("Lam", <<lX>>, "", 0, <<tA, s>>),
      T("BoolIf", <<>>, "", 0, <<s, tA, tB>>),
      T("Pi", <<Underscore>>, "", 0, <<s, tA>>),
      T("Let", <<lX>>, "", 0, <<s, tA, tB>>),
      T("EmptyListLit", <<>>, "", 0, <<s>>),
      NEListLit(<<tA, s>>),
      T("OldOptionalLit", <<>>, "", 0, <<s, tA>>),
      T("NEOptionalLit", <<>>, "", 0, <<s>>),
      T("Merge", <<>>, "", 0, <<s, tA, Absent>>),
      T("Merge", <<>>, "", 0, <<tA, tB, s>>),
      T("Annot", <<>>, "", 0, <<s, tA>>),
      App(s, <<tA>>), App(tA, <<tB, s>>),
      Field(s, kwIf),
      T("RecordLit", <<lX, lY>>, "", 0, <<tA, s>>),
      T("UnionType", <<lX, lY>>, "", 0, <<Absent, s>>),
      T("TextLit", << <<"a", "$">>, <<>> >>, "", 0, <<s>>),
      Note(1, s) }
      \cup {BinOp(op, s, tA) : op \in AroundOps}
      \cup {BinOp(op, tA, s) : op \in AroundOps}

RECURSIVE TermsUpTo(_)
TermsUpTo(d) ==
    IF d = 0 THEN Atoms
    ELSE LET S == TermsUpTo(d - 1)
         IN  S \cup Leaves \cup UNION {Around(s) : s \in S}

tF == Var(<<"f">>, 0)
tG == Var(<<"g">>, 0)
tX == Var(lX, 0)

\* the other shapes and forms of the model, and the nestings of three
\* variables under one operator and under application
Others ==
    { T("Const", <<>>, "Type", 0, <<>>), T("Builtin", <<>>, "Bool", 0, <<>>),
      T("BoolLit", <<>>, "", 1, <<>>), T("BoolLit", <<>>, "", 0, <<>>),
      T("IntegerLit", <<>>, "", 1, <<>>), T("RecordType", <<>>, "", 0, <<>>),
      T("UnionType", <<>>, "", 0, <<>>),
      T("Pi", <<lX>>, "", 0, <<tA, tB>>),
      T("Let", <<lX>>, "", 0, <<Absent, tA, tB>>),
      T("OldOptionalLit", <<>>, "", 0, <<Absent, tA>>),
      T("EmptyOptionalLit", <<>>, "", 0, <<tA>>),
      NEListLit(<<tA>>),
      T("Projection", <<lX, lY>>, "", 0, <<tA>>),
      T("Projection", <<>>, "", 0, <<tA>>),
      T("RecordType", <<lX, lY>>, "", 0, <<tA, tB>>),
      T("UnionLit", <<lX, lY>>, "", 0, <<tA, Absent>>),
      T("UnionLit", <<lX, lY>>, "", 0, <<tA, tB>>),
      Note(2, Note(1, BinOp("NaturalPlus", tA, tB))),
      App(tF, <<App(tG, <<tX>>)>>), App(tF, <<tG, tX>>), App(App(tF, <<tG>>), <<tX>>) }
      \cup {BinOp(op, tA, tB) : op \in BinOpSet}
      \cup {BinOp(op, tF, BinOp(op, tG, tX)) : op \in BinOpSet}
      \cup {BinOp(op, BinOp(op, tF, tG), tX) : op \in BinOpSet}

Terms == TermsUpTo(MaxDepth) \cup Others

\* the labels drawn by InitLabel: the strings of at most MaxLabelLen
\* characters of LabelChars, and three longer ones
LabelChars == {"e", "f", "h", "i", "l", "n", "s", "t", "2", "-", "EACUTE"}

StrsUpTo(S, n) == UNION {[1..k -> S] : k \in 0..n}

lFoo2   == <<"f", "o", "o", "2">>
lFooBar == <<"f", "o", "o", "-", "b", "a", "r">>

LabelStrs == StrsUpTo(LabelChars, MaxLabelLen) \cup {kwThen, kwElse, lFoo2, lFooBar}

----------------------------------------------------------------------------
(* The state.                                                              *)
(*   t       the term being rendered                                       *)
(*   ph      the phase demanded of t                                       *)
(*   lab     the label being rendered                                      *)
(*   stack   the calls in progress, innermost first: for each, the items   *)
(*           it has still to go through and the path of its node (the      *)
(*           indices in kids from the root, which is <<0>>)                *)
(*   out     the pieces the sink has accepted                              *)
(*   pc      "run": formatting; "unwind": an Err is being returned;        *)
(*           "done": the outermost call has returned; "label", "phase":    *)
(*           a label, a phased term is about to be rendered                *)
(*   res     the result of the outermost call: "none", "Ok" or "Err"       *)
(*   visited the paths of the nodes fmt_phase was entered for, in order    *)
(*   failed  whether the sink has returned an error                        *)
(*   late    the number of writes attempted after that error               *)

VARIABLES t, ph, lab, stack, out, pc, res, visited, failed, late

\* the fields of a MapSerializer, the calls made on it (each with the fields
\* it left) and what the last call returned
VARIABLES map, key, val, trace, ret

mvars == <<map, key, val, trace, ret>>

vars == <<t, ph, lab, stack, out, pc, res, visited, failed, late, mvars>>

\* Option::None and Option::Some
None == <<>>
Some(x) == <<x>>

\* an empty BTreeMap
EmptyMap == <<>>

\* no MapSerializer in use
MapIdle ==
    /\ map = EmptyMap /\ key = None /\ val = None /\ trace = <<>>
    /\ ret = [k |-> "none", v |-> EmptyMap]

Frame(items, path) == [items |-> items, path |-> path]

\* impl Display for SubExpr: a term is rendered under Base
Init ==
    /\ t \in Terms
    /\ ph = Base
    /\ lab = <<>>
    /\ stack = <<Frame(<<ExprI(t, Base, 0)>>, <<>>)>>
    /\ out = <<>>
    /\ pc = "run"
    /\ res = "none"
    /\ visited = <<>>
    /\ failed = FALSE
    /\ late = 0
    /\ MapIdle

Top == Head(stack)
Item == Head(Top.items)
Rest == <<Frame(Tail(Top.items), Top.path)>> \o Tail(stack)

\* impl Display for PhasedExpr: self.0.as_ref().fmt_phase(f, self.1)
Enter ==
    /\ pc = "run" /\ stack # <<>> /\ Top.items # <<>> /\ Item.w = "expr"
    /\ LET path == Append(Top.path, Item.ix)
       IN  /\ stack' = <<Frame(fmt_phase_items(Item.e, Item.ph), path)>> \o Rest
           /\ visited' = Append(visited, path)
    /\ UNCHANGED <<t, ph, lab, out, pc, res, failed, late, mvars>>

\* f.write_str(..) returns Ok
WriteOk ==
    /\ pc = "run" /\ stack # <<>> /\ Top.items # <<>> /\ Item.w = "str"
    /\ out' = Append(out, Item.cs)
    /\ stack' = Rest
    /\ late' = IF failed THEN late + 1 ELSE late
    /\ UNCHANGED <<t, ph, lab, pc, res, visited, failed, mvars>>

QuestionMarkMut(frames) ==
    IF frames # <<>> /\ Head(frames).items = <<StrI(<<")">>)>>
    THEN [stack |-> frames, pc |-> "run"]
    ELSE [stack |-> Tail(frames), pc |-> "unwind"]

\* the ? operator, when the call it is applied to has returned Err: the
\* calling function returns the Err at once
QuestionMark(frames) == [stack |-> Tail(frames), pc |-> "unwind"]

\* f.write_str(..) returns Err
WriteErr ==
    /\ pc = "run" /\ stack # <<>> /\ Top.items # <<>> /\ Item.w = "str"
    /\ failed' = TRUE
    /\ late' = IF failed THEN late + 1 ELSE late
    /\ stack' = QuestionMark(Rest).stack
    /\ pc' = QuestionMark(Rest).pc
    /\ UNCHANGED <<t, ph, lab, out, res, visited, mvars>>

\* an Err reaches the caller: its ? returns it in turn; the outermost call
\* returns it to the user of the printer
Propagate ==
    /\ pc = "unwind"
    /\ IF stack = <<>>
       THEN /\ pc' = "done"
            /\ res' = "Err"
            /\ stack' = stack
       ELSE /\ stack' = QuestionMark(stack).stack
            /\ pc' = QuestionMark(stack).pc
            /\ res' = res
    /\ UNCHANGED <<t, ph, lab, out, visited, failed, late, mvars>>

\* a call has gone through its items: it returns Ok(())
Return ==
    /\ pc = "run" /\ stack # <<>> /\ Top.items = <<>>
    /\ stack' = Tail(stack)
    /\ IF Tail(stack) = <<>>
       THEN pc' = "done" /\ res' = (IF failed THEN "Err" ELSE "Ok")
       ELSE pc' = pc /\ res' = res
    /\ UNCHANGED <<t, ph, lab, out, visited, failed, late, mvars>>

Next == Enter \/ WriteOk \/ WriteErr \/ Propagate \/ Return

Spec == Init /\ [][Next]_vars

\* the sink machine runs to the end of the render
FairSpec == Spec /\ WF_vars(Next)

----------------------------------------------------------------------------
(* Display for Label, applied to the labels of LabelStrs.                  *)

InitLabel ==
    /\ lab \in LabelStrs
    /\ t = tA /\ ph = Base /\ stack = <<>> /\ out = <<>> /\ pc = "label"
    /\ res = "none" /\ visited = <<>> /\ failed = FALSE /\ late = 0
    /\ MapIdle

FmtLabel ==
    /\ pc = "label"
    /\ out' = LabelFmt(lab)
    /\ pc' = "done"
    /\ res' = "Ok"
    /\ UNCHANGED <<t, ph, lab, stack, visited, failed, late, mvars>>

SpecLabel == InitLabel /\ [][FmtLabel]_vars

----------------------------------------------------------------------------
(* Display for PhasedExpr, applied to the terms of Terms under every       *)
(* phase, with a sink that never fails.                                    *)

InitPhase ==
    /\ t \in Terms
    /\ ph \in PrintPhases
    /\ lab = <<>> /\ stack = <<>> /\ out = <<>> /\ pc = "phase"
    /\ res = "none" /\ visited = <<>> /\ failed = FALSE /\ late = 0
    /\ MapIdle

FmtPhased ==
    /\ pc = "phase"
    /\ out' = fmt_phase(t, ph)
    /\ pc' = "done"
    /\ res' = "Ok"
    /\ UNCHANGED <<t, ph, lab, stack, visited, failed, late, mvars>>

SpecPhase == InitPhase /\ [][FmtPhased]_vars

----------------------------------------------------------------------------
(* Display for InterpolatedText, through the sink machine, applied to      *)
(* texts of one or two literal chunks.                                     *)

TextChars == {"\\", "\"", "$", "BS", "FF", "LF", "CR", "TAB", "a", "{"}

Text(ls, kids) == T("TextLit", ls, "", 0, kids)

\* the terms embedded in the texts: a variable, an operation, and a text
\* whose own rendering holds a quote, a backslash and a dollar sign
TextSubs == {tA, BinOp("NaturalPlus", tA, tB), Text(<< <<"$">> >>, <<>>)}

Texts ==
    {Text(<<c>>, <<>>) : c \in StrsUpTo(TextChars, MaxChunkLen)}
      \cup {Text(<<c, d>>, <<e>>) : c \in StrsUpTo(TextChars, MaxChunkLen),
                                   d \in {<<>>, <<"\"">>}, e \in TextSubs}

InitText ==
    /\ t \in Texts
    /\ ph = Base
    /\ lab = <<>>
    /\ stack = <<Frame(<<ExprI(t, Base, 0)>>, <<>>)>>
    /\ out = <<>>
    /\ pc = "run"
    /\ res = "none"
    /\ visited = <<>>
    /\ failed = FALSE
    /\ late = 0
    /\ MapIdle

SpecText == InitText /\ [][Next]_vars

----------------------------------------------------------------------------
(* MapSerializer: serialize_key, serialize_value and end, called in any    *)
(* order on a serializer made by serialize_map.                            *)

\* the calls made on one serializer before end
MaxCalls == 4

\* SimpleValue::Text and SimpleValue::Num
SimpleText(s) == [k |-> "Text", v |-> s]
Num(n) == [k |-> "Num", v |-> n]

\* the values handed to the calls: two strings, two numbers, a byte array
Inputs == {[ty |-> "str", v |-> "a"], [ty |-> "str", v |-> "b"],
           [ty |-> "u64", v |-> "1"], [ty |-> "u64", v |-> "2"],
           [ty |-> "bytes", v |-> ""]}

\* x.serialize(Serializer): serialize_str, serialize_u64, serialize_bytes
Serialize(x) ==
    CASE x.ty = "str" -> [ok |-> TRUE, v |-> SimpleText(x.v)]
      [] x.ty = "u64" -> [ok |-> TRUE, v |-> Num(x.v)]
      [] x.ty = "bytes" -> [ok |-> FALSE, v |-> Num("")]

insertMut(m, k, v) ==
    [x \in DOMAIN m \cup {k} |-> IF x \in DOMAIN m THEN m[x] ELSE v]

\* BTreeMap::insert
insert(m, k, v) ==
    [x \in DOMAIN m \cup {k} |-> IF x = k THEN v ELSE m[x]]

\* what a call returns
Result(k, m) == [k |-> k, v |-> m]

\* one call, as the trace keeps it: the fields are those the call left
Call(op, x, ok, m, ky, vl) ==
    [op |-> op, arg |-> x, ok |-> ok, map |-> m, key |-> ky, val |-> vl]

\* serialize_map: MapSerializer::default()
InitMap ==
    /\ t = tA /\ ph = Base /\ lab = <<>> /\ stack = <<>> /\ out = <<>>
    /\ res = "none" /\ visited = <<>> /\ failed = FALSE /\ late = 0
    /\ pc = "map"
    /\ map = EmptyMap /\ key = None /\ val = None
    /\ trace = <<>>
    /\ ret = Result("none", EmptyMap)

\* fn serialize_key
serialize_key ==
    /\ pc = "map" /\ Len(trace) < MaxCalls
    /\ \E x \in Inputs :
         LET r == Serialize(x)
         IN  IF ~r.ok \/ r.v.k # "Text"
             THEN /\ ret' = Result("Err", EmptyMap)
                  /\ trace' = Append(trace, Call("key", x, FALSE, map, key, val))
                  /\ UNCHANGED <<map, key, val>>
             ELSE /\ IF val # None
                     THEN /\ map' = insert(map, r.v.v, val[1])
                          /\ val' = None
                          /\ key' = key
                     ELSE /\ key' = Some(r.v.v)
                          /\ UNCHANGED <<map, val>>
                  /\ ret' = Result("Ok", EmptyMap)
                  /\ trace' = Append(trace, Call("key", x, TRUE, map', key', val'))
    /\ UNCHANGED <<t, ph, lab, stack, out, pc, res, visited, failed, late>>

\* fn serialize_value
serialize_value ==
    /\ pc = "map" /\ Len(trace) < MaxCalls
    /\ \E x \in Inputs :
         LET r == Serialize(x)
         IN  IF ~r.ok
             THEN /\ ret' = Result("Err", EmptyMap)
                  /\ trace' = Append(trace, Call("value", x, FALSE, map, key, val))
                  /\ UNCHANGED <<map, key, val>>
             ELSE /\ IF key # None
                     THEN /\ map' = insert(map, key[1], r.v)
                          /\ key' = None
                          /\ val' = val
                     ELSE /\ val' = Some(r.v)
                          /\ UNCHANGED <<map, key>>
                  /\ ret' = Result("Ok", EmptyMap)
                  /\ trace' = Append(trace, Call("value", x, TRUE, map', key', val'))
    /\ UNCHANGED <<t, ph, lab, stack, out, pc, res, visited, failed, late>>

\* fn end: Ok(Record(self.map))
end ==
    /\ pc = "map"
    /\ pc' = "ended"
    /\ ret' = Result("Record", map)
    /\ UNCHANGED <<t, ph, lab, stack, out, res, visited, failed, late>>
    /\ UNCHANGED <<map, key, val, trace>>

NextMap == serialize_key \/ serialize_value \/ end

SpecMap == InitMap /\ [][NextMap]_vars

----------------------------------------------------------------------------
(* What the properties below are stated with.                              *)

LParen == <<"(">>
RParen == <<")">>

\* the finished render of t by the sink machine, the sink never failing
Rendered == pc = "done" /\ res = "Ok" /\ visited # <<>>

CountOf(o, a, b, p) == Cardinality({k \in a..b : o[k] = p})

\* the position of the ")" piece that closes the "(" piece at i
MatchClose(o, i) ==
    LET cs == {j \in (i + 1)..Len(o) :
                 o[j] = RParen
                 /\ CountOf(o, i + 1, j - 1, LParen) = CountOf(o, i + 1, j - 1, RParen)}
    IN  IF cs = {} THEN 0 ELSE CHOOSE j \in cs : \A j2 \in cs : j <= j2

\* the pieces o without those at i and j, i < j
Without(o, i, j) ==
    [k \in 1..(Len(o) - 2) |->
        o[IF k < i THEN k ELSE IF k < j - 1 THEN k + 1 ELSE k + 2]]

\* o is "(" ... ")" with the two matching each other
Wrapped(o) == o # <<>> /\ o[1] = LParen /\ MatchClose(o, 1) = Len(o)

IsPrefix(a, b) == Len(a) <= Len(b) /\ \A i \in 1..Len(a) : a[i] = b[i]

\* the paths of the nodes of e, e itself being at path p
RECURSIVE NodePaths(_, _)
NodePaths(e, p) ==
    {p} \cup UNION {NodePaths(e.kids[i], Append(p, i)) :
                      i \in {j \in 1..Len(e.kids) : e.kids[j] # Absent}}

IsVar(e) == e.k = "Var"

\* op applied to a variable and to op applied to two variables
RightNested(e) ==
    /\ e.k = "BinOp" /\ IsVar(e.kids[1])
    /\ e.kids[2].k = "BinOp" /\ e.kids[2].op = e.op
    /\ IsVar(e.kids[2].kids[1]) /\ IsVar(e.kids[2].kids[2])

\* op applied to op applied to two variables and to a variable
LeftNested(e) ==
    /\ e.k = "BinOp" /\ IsVar(e.kids[2])
    /\ e.kids[1].k = "BinOp" /\ e.kids[1].op = e.op
    /\ IsVar(e.kids[1].kids[1]) /\ IsVar(e.kids[1].kids[2])

\* the same three variables under the same operator, nested the other way
OtherNesting(e) ==
    IF RightNested(e)
    THEN BinOp(e.op, BinOp(e.op, e.kids[1], e.kids[2].kids[1]), e.kids[2].kids[2])
    ELSE BinOp(e.op, e.kids[1].kids[1], BinOp(e.op, e.kids[1].kids[2], e.kids[2]))

----------------------------------------------------------------------------
(* The properties.                                                         *)

\* C1: parsing the string rendered for a term t (free of imports) at the
\* top level yields t with its Note wrappers removed.
C1_RoundTrip ==
    Rendered =>
        LET r == Parse(Flatten(out)) IN r.ok /\ r.e = StripNotes(t)

\* C2: for an operator op and variables a, b, c, the renderings of
\* op(a, op(b, c)) and of op(op(a, b), c) each parse back to the term
\* rendered, the two renderings differ, and the one of op(op(a, b), c) holds
\* no parenthesis.
C2_Associativity ==
    (Rendered /\ (RightNested(t) \/ LeftNested(t))) =>
        LET r == Parse(Flatten(out))
        IN  /\ r.ok /\ r.e = t
            /\ Flatten(out) # Flatten(SubExprFmt(OtherNesting(t)))
            /\ LeftNested(t) => \A i \in 1..Len(out) : out[i] \notin {LParen, RParen}

\* C3: App(f, [App(g, [x])]) renders as "f (g x)", and both App(f, [g, x])
\* and App(App(f, [g]), [x]) render as "f g x".
C3_AppNesting ==
    Rendered =>
        /\ t = App(tF, <<App(tG, <<tX>>)>>)
             => Flatten(out) = <<"f", " ", "(", "g", " ", "x", ")">>
        /\ t = App(tF, <<tG, tX>>) => Flatten(out) = <<"f", " ", "g", " ", "x">>
        /\ t = App(App(tF, <<tG>>), <<tX>>)
             => Flatten(out) = <<"f", " ", "g", " ", "x">>

\* C4: no pair of parentheses written by the phase engine is redundant:
\* the rendering without the pair does not parse, or parses to another term.
C4_Minimal ==
    Rendered =>
        \A i \in {k \in 1..Len(out) : out[k] = LParen} :
            LET r == Parse(Flatten(Without(out, i, MatchClose(out, i))))
            IN  ~r.ok \/ r.e # StripNotes(t)

\* C5: a label is written bare exactly when all its characters are ASCII
\* letters or digits and it is none of let, in, if, then, else; otherwise it
\* is written between back-ticks.  if is quoted, foo2 is bare, foo-bar is
\* quoted.
C5_LabelQuoting ==
    pc = "done" =>
        LET alnum == \A i \in 1..Len(lab) : lab[i] \in DigitSet \cup LowerSet \cup UpperSet
            kw == lab \in {kwLet, kwIn, kwIf, kwThen, kwElse}
            quoted == <<"BACKTICK">> \o lab \o <<"BACKTICK">>
        IN  /\ (alnum /\ ~kw) => Flatten(out) = lab
            /\ ~(alnum /\ ~kw) => Flatten(out) = quoted
            /\ lab = kwIf => Flatten(out) = <<"BACKTICK", "i", "f", "BACKTICK">>
            /\ lab = lFoo2 => Flatten(out) = lFoo2
            /\ lab = lFooBar => Flatten(out) = quoted

C5_Witness ==
    /\ pc = "done" /\ lab = kwIf
    /\ out = <<Backtick, kwIf, Backtick>>

\* the characters the text printer escapes, and the letter after the
\* backslash for each
Escaped == [c \in {"\\", "\"", "$", "BS", "FF", "LF", "CR", "TAB"} |->
              CASE c = "BS" -> "b" [] c = "FF" -> "f" [] c = "LF" -> "n"
                [] c = "CR" -> "r" [] c = "TAB" -> "t" [] OTHER -> c]

EscapedChunk(cs) ==
    Flatten([i \in 1..Len(cs) |->
               IF cs[i] \in DOMAIN Escaped THEN <<"\\", Escaped[cs[i]]>> ELSE <<cs[i]>>])

\* C6: a rendered text is a double quote, then the chunks in order, then a
\* double quote: a literal chunk with each of its special characters as
\* backslash and letter and every other character as it is, and an embedded
\* term as "${ ", its own rendering unchanged, " }".
C6_TextEscaping ==
    Rendered =>
        Flatten(out) =
            <<"\"">>
              \o Flatten([i \in 1..Len(t.ls) |->
                   EscapedChunk(t.ls[i])
                     \o (IF i <= Len(t.kids)
                         THEN <<"$", "{", " ">> \o Flatten(SubExprFmt(t.kids[i]))
                                \o <<" ", "}">>
                         ELSE <<>>)])
              \o <<"\"">>

C6_Witness ==
    /\ Rendered
    /\ t = Text(<< <<"$", "\\">>, <<"\"">> >>, <<Text(<< <<"$">> >>, <<>>)>>)
    /\ Flatten(out) = <<"\"", "\\", "$", "\\", "\\", "$", "{", " ", "\"", "\\", "$",
                        "\"", " ", "}", "\\", "\"", "\"">>

\* C7: once the sink has failed on a write, no further write is attempted
\* and the render is being abandoned; it ends with the error, the sink
\* holding the pieces written before the failing one and nothing else.
C7_SinkError ==
    failed =>
        /\ late = 0
        /\ pc \in {"unwind", "done"}
        /\ pc = "done" =>
              /\ res = "Err" /\ stack = <<>>
              /\ LET whole == SubExprFmt(t)
                 IN  IsPrefix(out, whole) /\ Len(out) < Len(whole)

\* an error is on its way out of a nested call whose closing parenthesis,
\* and whose caller's later pieces, are still to be written
C7_Witness ==
    /\ failed /\ pc = "unwind" /\ Len(stack) >= 3 /\ out # <<>>
    /\ \E i \in 1..Len(Head(stack).items) : Head(stack).items[i] = StrI(RParen)
    /\ stack[2].items # <<>>

\* C8: a render whose sink never fails ends, with success, and fmt_phase is
\* entered exactly once for each node of the term: never twice, and by the
\* end never zero times.
C8_SingleVisit ==
    /\ <>(failed \/ (pc = "done" /\ res = "Ok"))
    /\ [](\A i, j \in 1..Len(visited) : visited[i] = visited[j] => i = j)
    /\ []((pc = "done" /\ ~failed) =>
            /\ res = "Ok"
            /\ {visited[i] : i \in 1..Len(visited)} = NodePaths(t, <<0>>)
            /\ Len(visited) = Cardinality(NodePaths(t, <<0>>)))

C8_Witness ==
    /\ pc = "done" /\ res = "Ok" /\ ~failed
    /\ t = App(tF, <<App(tG, <<tX>>)>>)
    /\ visited = <<<<0>>, <<0, 1>>, <<0, 2>>, <<0, 2, 1>>, <<0, 2, 2>>>>

\* C9: a Note wrapper renders, under every phase, exactly as the term it
\* wraps does under that phase.
C9_NoteTransparent ==
    (pc = "done" /\ t.k = "Note") => out = fmt_phase(t.kids[1], ph)

\* two wrappers around a term that needs parentheses under Import
C9_Witness ==
    /\ pc = "done" /\ ph = Import
    /\ t = Note(2, Note(1, BinOp("NaturalPlus", tA, tB)))
    /\ Flatten(out) = <<"(", "a", " ", "+", " ", "b", ")">>

\* the order of the phases: Base, Operator, the operators in declaration
\* order, App, Import, Primitive
PhaseRank(p) ==
    CASE p.v = "Base" -> 0
      [] p.v = "Operator" -> 1
      [] p.v = "BinOp" -> 1 + OpIdx(p.op)
      [] p.v = "App" -> 2 + Len(BinOps)
      [] p.v = "Import" -> 3 + Len(BinOps)
      [] p.v = "Primitive" -> 4 + Len(BinOps)

\* C10: a node rendered under phase p is wrapped in parentheses exactly
\* when it is a lambda, conditional, function type, let, list, optional,
\* merge or annotation and p is tighter than Base, or a binary operation
\* and p is tighter than or equal to the phase of its operator, or an
\* application and p is tighter than App, or a field access or projection
\* and p is tighter than Import.
C10_ParenDecision ==
    (pc = "done" /\ t.k # "Note") =>
        LET e == t
            claimed ==
              \/ e.k \in {"Lam", "BoolIf", "Pi", "Let", "EmptyListLit", "NEListLit",
                          "OldOptionalLit", "EmptyOptionalLit", "NEOptionalLit",
                          "Merge", "Annot"} /\ PhaseRank(ph) > PhaseRank(Base)
              \/ e.k = "BinOp" /\ PhaseRank(ph) >= PhaseRank(BinOpPhase(e.op))
              \/ e.k = "App" /\ PhaseRank(ph) > PhaseRank(AppPhase)
              \/ e.k \in {"Field", "Projection"} /\ PhaseRank(ph) > PhaseRank(Import)
        IN  Wrapped(out) <=> claimed

\* the node of e reached by following the subterm indices of p
RECURSIVE Walk(_, _)
Walk(e, p) == IF p = <<>> THEN e ELSE Walk(e.kids[Head(p)], Tail(p))

\* the phase C11 gives the i-th subterm of the node e
ClaimedChild(e, i) ==
    CASE e.k = "Pi" /\ e.ls[1] = <<"_">> /\ i = 1 -> Operator
      [] e.k = "Annot" /\ i = 1 -> Operator
      [] e.k = "BinOp" -> BinOpPhase(e.op)
      [] e.k = "App" -> Import
      [] e.k = "Merge" /\ i \in {1, 2} -> Import
      [] e.k = "Merge" /\ i = 3 -> AppPhase
      [] e.k \in {"EmptyListLit", "EmptyOptionalLit", "NEOptionalLit"} /\ i = 1 -> Import
      [] e.k = "OldOptionalLit" /\ i = 2 -> Import
      [] e.k \in {"Field", "Projection"} /\ i = 1 -> Primitive
      [] OTHER -> Base

\* the same, but for the term a Note wraps: the phase d demanded of the Note
AmendedChild(e, i, d) == IF e.k = "Note" THEN d ELSE ClaimedChild(e, i)

\* the phase demanded of the node reached from e by p, d being demanded of e
RECURSIVE Demanded(_, _, _)
Demanded(e, d, p) ==
    IF p = <<>> THEN d
    ELSE Demanded(e.kids[Head(p)], AmendedChild(e, Head(p), d), Tail(p))

\* fmt_phase is about to be entered for a subterm of the node at Top.path
AtSubterm ==
    /\ pc = "run" /\ stack # <<>> /\ Top.items # <<>> /\ Item.w = "expr"
    /\ Top.path # <<>>

\* C11 as stated: whatever is demanded of a node, each of its subterms is
\* rendered under the phase its position has: Operator, BinOp(op), Import,
\* App or Primitive for the positions listed, Base for every other one.
C11_ChildPhases ==
    AtSubterm => Item.ph = ClaimedChild(Walk(t, Tail(Top.path)), Item.ix)

\* C11, amended: the same for every node but a Note, and the term a Note
\* wraps is rendered under the phase demanded of the Note.
C11_ChildPhasesAmended ==
    AtSubterm => Item.ph = Demanded(t, Base, Tail(Append(Top.path, Item.ix)))

\* fmt_phase is about to be entered, under Import, for the term wrapped by a
\* Note that is the function of an application
C11_Witness ==
    /\ AtSubterm
    /\ t = App(Note(1, tA), <<tA>>)
    /\ Top.path = <<0, 1>> /\ Item.ix = 1 /\ Item.e = tA /\ Item.ph = Import

\* the shapes the parenthesization decision names in an arm of their own
RuledShapes ==
    {"Lam", "BoolIf", "Pi", "Let", "EmptyListLit", "NEListLit", "OldOptionalLit",
     "EmptyOptionalLit", "NEOptionalLit", "Merge", "Annot", "BinOp", "App",
     "Field", "Projection"}

\* C12: a term whose shape only the default case of the parenthesization
\* decision handles is parenthesized whenever it is rendered under a
\* demanded phase tighter than Base.
C12_FailSafe ==
    (pc = "done" /\ t.k \notin RuledShapes /\ PhaseRank(ph) > PhaseRank(Base))
        => Wrapped(out)

\* every call made so far returned Ok
AllOk == \A i \in 1..Len(trace) : trace[i].ok

\* the fields before the i-th call
Before(i) ==
    IF i = 1 THEN Call("serialize_map", [ty |-> "", v |-> ""], TRUE, EmptyMap, None, None)
    ELSE trace[i - 1]

\* the map m with k bound to v, whatever k was bound to
Put(m, k, v) == [x \in DOMAIN m \cup {k} |-> IF x = k THEN v ELSE m[x]]

\* the key of a successful key call and the value of a successful value call
KeyOf(c) == c.arg.v
ValueOf(c) == [k |-> IF c.arg.ty = "str" THEN "Text" ELSE "Num", v |-> c.arg.v]

\* the i-th call and the next one are a key call and a value call, in the
\* order first, second
Adjacent(i, first, second) ==
    i < Len(trace) /\ trace[i].op = first /\ trace[i + 1].op = second

\* the key call and the value call among calls i and i + 1 have put their
\* pair in the map that call i found, and no slot is pending
Paired(i, kc, vc) ==
    /\ trace[i + 1].map = Put(Before(i).map, KeyOf(kc), ValueOf(vc))
    /\ trace[i + 1].key = None /\ trace[i + 1].val = None

\* end() has returned the map as the calls left it
EndsWithMap ==
    pc = "ended" =>
        /\ ret = Result("Record", map)
        /\ trace # <<>> => map = trace[Len(trace)].map
        /\ trace = <<>> => map = EmptyMap

\* the map changes only by a call that finds the other slot pending, and
\* then by the pair of that call's argument and the pending one
OnlyPairsInserted ==
    \A i \in 1..Len(trace) :
        LET c == trace[i]
            b == Before(i)
        IN  trace[i].map =
              IF c.op = "key" /\ b.val # None THEN Put(b.map, KeyOf(c), b.val[1])
              ELSE IF c.op = "value" /\ b.key # None THEN Put(b.map, b.key[1], ValueOf(c))
              ELSE b.map

\* C13 as stated: when every call succeeds, the pending key and the pending
\* value are never both set; every key call followed by a value call, and
\* every value call followed by a key call, puts that pair in the map and
\* leaves both slots empty; end() returns a Record of exactly the pairs put,
\* the latest value kept for a repeated key.
C13_MapPairing ==
    AllOk =>
        /\ ~(key # None /\ val # None)
        /\ \A i \in 1..Len(trace) :
             /\ Adjacent(i, "key", "value") => Paired(i, trace[i], trace[i + 1])
             /\ Adjacent(i, "value", "key") => Paired(i, trace[i + 1], trace[i])
        /\ OnlyPairsInserted
        /\ EndsWithMap

\* C13, amended: the same, for a key call made when no value is pending
\* followed by a value call, and for a value call made when no key is
\* pending followed by a key call.
C13_MapPairingAmended ==
    AllOk =>
        /\ ~(key # None /\ val # None)
        /\ \A i \in 1..Len(trace) :
             /\ (Adjacent(i, "key", "value") /\ Before(i).val = None)
                  => Paired(i, trace[i], trace[i + 1])
             /\ (Adjacent(i, "value", "key") /\ Before(i).key = None)
                  => Paired(i, trace[i + 1], trace[i])
        /\ OnlyPairsInserted
        /\ EndsWithMap

\* a key then its value, then a value then its key, the key being the same:
\* end() has returned the record with the later value
C13_Witness ==
    /\ pc = "ended" /\ AllOk /\ Len(trace) = 4
    /\ [i \in 1..4 |-> trace[i].op] = <<"key", "value", "value", "key">>
    /\ [i \in 1..4 |-> trace[i].arg.v] = <<"a", "1", "2", "a">>
    /\ trace[2].map = [x \in {"a"} |-> Num("1")]
    /\ ret = Result("Record", [x \in {"a"} |-> Num("2")])
    /\ key = None /\ val = None

=============================================================================
